---- MODULE Spec2Model ----
(***************************************************************************)
(* A model of stripe_app.py: build_svg_tree (block sampling, density,      *)
(* raw segment generation, per-coordinate merging, path emission) and its  *)
(* nested merge_segments sweep.                                            *)
(*                                                                         *)
(* Encodings.                                                              *)
(*  - The mode labels of the radio button are written "mono" and           *)
(*    "color", the direction labels "horizontal" and "vertical".           *)
(*  - A pixel is an integer 0..255 (mode L) or a triple <<r, g, b>> (RGB). *)
(*  - A stroke colour string is modelled by an integer that orders as the  *)
(*    string does under Python's comparison: "#rrggbb" (two lower-case hex *)
(*    digits per channel) is r*65536 + g*256 + b, and "black", which is    *)
(*    greater than every "#..." string, is 256*256*256.                    *)
(*  - A raw or merged segment is <<x1, x2, color>>; a path element is      *)
(*    <<mx, my, lx, ly, color>> for d = "M mx my L lx ly".                 *)
(*  - The float64 arithmetic of the density computation is modelled by     *)
(*    exact integer floor division; on every input domain drawn below the  *)
(*    two agree (float64 can be one lower only where the exact quotient is *)
(*    an integer that the float product misses).                           *)
(***************************************************************************)
EXTENDS Integers, Sequences, FiniteSets, TLC

\* Default arguments of build_svg_tree.
DefaultBlockSize == 12
DefaultMaxLines == 5
DefaultLineSpacing == 1
DefaultMergeThreshold == 1

\* Bounds of the explored inputs.
MaxSide == 3
MaxPixels == 6
MaxBlock == 2
MaxLines == 2
MaxSpacing == 2
MaxThreshold == 1
MaxSegs == 3
MaxCoord == 3

VARIABLES
    \* arguments of build_svg_tree
    img, w, h, direction, mode, block_size, max_lines, line_spacing,
    merge_threshold,
    \* locals of build_svg_tree
    by, bx, block, density, stroke_color, line_buffer, key, paths,
    \* locals of merge_segments, and the caller's use of its result
    segments, sorted_segs, pos, merged, pass, first_result,
    \* control position
    pc

vars == <<img, w, h, direction, mode, block_size, max_lines, line_spacing,
          merge_threshold, by, bx, block, density, stroke_color, line_buffer,
          key, paths, segments, sorted_segs, pos, merged, pass, first_result, pc>>

buildArgs == <<img, w, h, direction, mode, block_size, max_lines, line_spacing>>
buildLocals == <<by, bx, block, density, stroke_color, line_buffer, key, paths>>
mergeLocals == <<segments, sorted_segs, pos, merged, pass, first_result>>

Min(a, b) == IF a < b THEN a ELSE b
Max(a, b) == IF a > b THEN a ELSE b

BlackCode == 256 * 256 * 256

(***************************************************************************)
(* Block sampling: block = img[by:by+block_size, bx:bx+block_size]         *)
(***************************************************************************)

\* The slice, flattened row-major; numpy clips the slice at the array edge.
Slice(im, ww, hh, y0, x0, bs) ==
    LET r1 == Min(y0 + bs, hh)
        c1 == Min(x0 + bs, ww)
        bw == c1 - x0
        n  == IF r1 > y0 /\ c1 > x0 THEN (r1 - y0) * bw ELSE 0
    IN  [i \in 1..n |-> im[<<y0 + ((i - 1) \div bw), x0 + ((i - 1) % bw)>>]]

\* channel 0 of a mono pixel is the pixel; channels 1..3 of an RGB pixel.
Chan(p, ch) == IF ch = 0 THEN p ELSE p[ch]

\* The sum of channel ch over s[lo..hi] (halving keeps the recursion shallow).
RECURSIVE SeqSum(_, _, _, _)
SeqSum(s, ch, lo, hi) ==
    IF lo > hi THEN 0
    ELSE IF lo = hi THEN Chan(s[lo], ch)
    ELSE LET mid == (lo + hi) \div 2
         IN  SeqSum(s, ch, lo, mid) + SeqSum(s, ch, mid + 1, hi)

ChanSum(blk, ch) == SeqSum(blk, ch, 1, Len(blk))

\* int(((255 - avg) / 255) * max_lines), avg = np.mean(block)
MonoDensity(blk, ml) ==
    LET n == Len(blk)
        s == ChanSum(blk, 0)
    IN  ((255 * n - s) * ml) \div (255 * n)

\* "#{:02x}{:02x}{:02x}".format(*avg_color.astype(int))
ColorStroke(blk) ==
    LET n == Len(blk)
    IN  (ChanSum(blk, 1) \div n) * 65536 + (ChanSum(blk, 2) \div n) * 256
        + (ChanSum(blk, 3) \div n)

\* int(np.dot(avg_color, [0.2989, 0.5870, 0.1140]))
Gray(blk) ==
    LET n == Len(blk)
    IN  (2989 * ChanSum(blk, 1) + 5870 * ChanSum(blk, 2)
         + 1140 * ChanSum(blk, 3)) \div (10000 * n)

\* int(((255 - gray) / 255) * max_lines)
ColorDensity(blk, ml) == ((255 - Gray(blk)) * ml) \div 255

BlockDensity(blk, md, ml) ==
    IF md = "color" THEN ColorDensity(blk, ml) ELSE MonoDensity(blk, ml)

BlockStroke(blk, md) == IF md = "color" THEN ColorStroke(blk) ELSE BlackCode

(***************************************************************************)
(* Segment generation: for i in range(density) ... setdefault(..).append   *)
(***************************************************************************)

\* A variant that counts the lines from 1: range(1, density + 1).
LineCoordFromOne(o, i, ls) == o + (i + 1) * ls

\* The coordinate of line i of a block whose perpendicular origin is o.
LineCoord(o, i, ls) == o + i * ls

\* A variant that breaks one coordinate early: y >= by + block_size - 1.
LineKeptEarlyBreak(o, i, ls, bs) == LineCoord(o, i, ls) < o + bs - 1

\* The loop breaks at the first i whose coordinate is >= origin + block_size.
LineKept(o, i, ls, bs) == LineCoord(o, i, ls) < o + bs

\* The tuple appended for a block at (y0, x0): its extent along the stripe.
RawSegment(y0, x0, bs, dir, color) ==
    IF dir = "horizontal" THEN <<x0, x0 + bs, color>> ELSE <<y0, y0 + bs, color>>

PerpOrigin(y0, x0, dir) == IF dir = "horizontal" THEN y0 ELSE x0

BufGet(lb, k) == IF k \in DOMAIN lb THEN lb[k] ELSE <<>>

BufAppend(lb, k, seg) ==
    [x \in DOMAIN lb \cup {k} |-> IF x = k THEN Append(BufGet(lb, k), seg) ELSE lb[x]]

RECURSIVE AppendLines(_, _, _, _, _, _, _, _, _)
AppendLines(lb, i, dens, y0, x0, bs, ls, dir, color) ==
    IF i >= dens \/ ~LineKept(PerpOrigin(y0, x0, dir), i, ls, bs)
    THEN lb
    ELSE AppendLines(
             BufAppend(lb, LineCoord(PerpOrigin(y0, x0, dir), i, ls),
                       RawSegment(y0, x0, bs, dir, color)),
             i + 1, dens, y0, x0, bs, ls, dir, color)

(***************************************************************************)
(* merge_segments                                                          *)
(***************************************************************************)

\* Python's tuple order on (x1, x2, color).
SegLess(a, b) ==
    \/ a[1] < b[1]
    \/ a[1] = b[1] /\ a[2] < b[2]
    \/ a[1] = b[1] /\ a[2] = b[2] /\ a[3] < b[3]

RECURSIVE InsertSorted(_, _)
InsertSorted(s, e) ==
    IF s = <<>> THEN <<e>>
    ELSE IF SegLess(e, Head(s)) THEN <<e>> \o s
    ELSE <<Head(s)>> \o InsertSorted(Tail(s), e)

\* A variant that sorts on the end first: key (x2, x1, color).
RECURSIVE InsertByEnd(_, _)
InsertByEnd(s, e) ==
    IF s = <<>> THEN <<e>>
    ELSE IF SegLess(<<e[2], e[1], e[3]>>, <<Head(s)[2], Head(s)[1], Head(s)[3]>>)
    THEN <<e>> \o s
    ELSE <<Head(s)>> \o InsertByEnd(Tail(s), e)

RECURSIVE SortedByEnd(_)
SortedByEnd(s) ==
    IF s = <<>> THEN <<>>
    ELSE InsertByEnd(SortedByEnd(SubSeq(s, 1, Len(s) - 1)), s[Len(s)])

\* sorted(segments): a stable insertion into the sorted prefix.
RECURSIVE SortedSegs(_)
SortedSegs(s) ==
    IF s = <<>> THEN <<>>
    ELSE InsertSorted(SortedSegs(SubSeq(s, 1, Len(s) - 1)), s[Len(s)])

\* A variant with the comparison off by one: x1 >= end + merge_threshold.
OpensRunAtLeast(mg, seg, thr) ==
    \/ mg = <<>>
    \/ seg[1] >= mg[Len(mg)][2] + thr
    \/ seg[3] # mg[Len(mg)][3]

\* A variant that forgets the gap test: only a colour change opens a run.
OpensRunColorOnly(mg, seg, thr) ==
    \/ mg = <<>>
    \/ seg[3] # mg[Len(mg)][3]

\* The test of the loop body: does the segment open a new run?
OpensRun(mg, seg, thr) ==
    \/ mg = <<>>
    \/ seg[1] > mg[Len(mg)][2] + thr
    \/ seg[3] # mg[Len(mg)][3]

\* One iteration of the loop over the sorted segments.
MergeStep(mg, seg, thr) ==
    IF OpensRun(mg, seg, thr)
    THEN Append(mg, seg)
    ELSE [mg EXCEPT ![Len(mg)][2] = Max(mg[Len(mg)][2], seg[2])]

RECURSIVE Sweep(_, _, _, _)
Sweep(ss, i, mg, thr) ==
    IF i > Len(ss) THEN mg ELSE Sweep(ss, i + 1, MergeStep(mg, ss[i], thr), thr)

merge_segments(segs, thr) == Sweep(SortedSegs(segs), 1, <<>>, thr)

(***************************************************************************)
(* Emission                                                                *)
(***************************************************************************)

\* A variant that writes the vertical path in the horizontal layout.
PathOfOneLayout(seg, k, dir) == <<seg[1], k, seg[2], k, seg[3]>>

\* d = "M x1 key L x2 key" (horizontal) or "M key x1 L key x2" (vertical)
PathOf(seg, k, dir) ==
    IF dir = "horizontal"
    THEN <<seg[1], k, seg[2], k, seg[3]>>
    ELSE <<k, seg[1], k, seg[2], seg[3]>>

PathsOf(mg, k, dir) == [i \in 1..Len(mg) |-> PathOf(mg[i], k, dir)]

\* sorted(line_buffer.keys()) as the keys still to emit, smallest first.
MinKey(S) == CHOOSE k \in S : \A j \in S : k <= j

RECURSIVE EmitAll(_, _, _, _, _)
EmitAll(lb, last, dir, thr, acc) ==
    LET rest == {k \in DOMAIN lb : k > last}
    IN  IF rest = {} THEN acc
        ELSE LET k == MinKey(rest)
             IN  EmitAll(lb, k, dir, thr,
                         acc \o PathsOf(merge_segments(lb[k], thr), k, dir))

(***************************************************************************)
(* build_svg_tree as a function of its arguments: the path children of the *)
(* returned document.                                                      *)
(***************************************************************************)

\* One iteration of the block loops at origin (y0, x0).
ScanOne(lb, im, ww, hh, y0, x0, dir, md, bs, ml, ls) ==
    LET blk == Slice(im, ww, hh, y0, x0, bs)
    IN  IF Len(blk) = 0 THEN lb
        ELSE AppendLines(lb, 0, BlockDensity(blk, md, ml), y0, x0, bs, ls, dir,
                         BlockStroke(blk, md))

RECURSIVE ScanFrom(_, _, _, _, _, _, _, _, _, _, _)
ScanFrom(lb, im, ww, hh, y0, x0, dir, md, bs, ml, ls) ==
    IF y0 >= hh THEN lb
    ELSE LET nlb == ScanOne(lb, im, ww, hh, y0, x0, dir, md, bs, ml, ls)
         IN  IF x0 + bs < ww
             THEN ScanFrom(nlb, im, ww, hh, y0, x0 + bs, dir, md, bs, ml, ls)
             ELSE ScanFrom(nlb, im, ww, hh, y0 + bs, 0, dir, md, bs, ml, ls)

build_svg_tree(im, ww, hh, dir, md, bs, ml, ls, thr) ==
    EmitAll(ScanFrom(<<>>, im, ww, hh, 0, 0, dir, md, bs, ml, ls), -1, dir, thr, <<>>)

(***************************************************************************)
(* Inputs                                                                  *)
(***************************************************************************)

Directions == {"horizontal", "vertical"}
Modes == {"mono", "color"}

\* Pixel values of the explored grids: black and white, black and red.
MonoPalette == {0, 255}
ColorPalette == {<<0, 0, 0>>, <<255, 0, 0>>}
Palette(md) == IF md = "color" THEN ColorPalette ELSE MonoPalette

Coords(ww, hh) == (0..(hh - 1)) \X (0..(ww - 1))

\* The spec's end-to-end example: 24 x 24, every pixel 128, default arguments.
ExampleSide == 2 * DefaultBlockSize
ExampleImg == [c \in Coords(ExampleSide, ExampleSide) |-> 128]

NoMerge ==
    /\ segments = <<>> /\ sorted_segs = <<>> /\ pos = 0 /\ merged = <<>>
    /\ pass = 0 /\ first_result = <<>>

NoBuild ==
    /\ img = <<>> /\ w = 0 /\ h = 0 /\ direction = "horizontal" /\ mode = "mono"
    /\ block_size = DefaultBlockSize /\ max_lines = DefaultMaxLines
    /\ line_spacing = DefaultLineSpacing
    /\ by = 0 /\ bx = 0 /\ block = <<>> /\ density = 0 /\ stroke_color = BlackCode
    /\ line_buffer = <<>> /\ key = -1 /\ paths = <<>>

BuildStart ==
    /\ by = 0 /\ bx = 0 /\ block = <<>> /\ density = 0 /\ stroke_color = BlackCode
    /\ line_buffer = <<>> /\ key = -1 /\ paths = <<>> /\ pc = "scan"

InitSmall ==
    /\ w \in 1..MaxSide /\ h \in 1..MaxSide /\ w * h <= MaxPixels
    /\ direction \in Directions /\ mode \in Modes
    /\ block_size \in 1..MaxBlock
    /\ max_lines \in 1..MaxLines
    /\ line_spacing \in 1..MaxSpacing
    /\ merge_threshold \in 0..MaxThreshold
    /\ img \in [Coords(w, h) -> Palette(mode)]

InitExample ==
    /\ w = ExampleSide /\ h = ExampleSide
    /\ direction = "horizontal" /\ mode = "mono"
    /\ block_size = DefaultBlockSize /\ max_lines = DefaultMaxLines
    /\ line_spacing = DefaultLineSpacing /\ merge_threshold = DefaultMergeThreshold
    /\ img = ExampleImg

Init == (InitSmall \/ InitExample) /\ BuildStart /\ NoMerge

(***************************************************************************)
(* build_svg_tree, one loop iteration per step                             *)
(***************************************************************************)

\* for by ...: for bx ...: the body at (by, bx), then the loops advance.
ScanBlock ==
    /\ pc = "scan" /\ by < h
    /\ block' = Slice(img, w, h, by, bx, block_size)
    /\ IF Len(block') = 0
       THEN UNCHANGED <<density, stroke_color, line_buffer>>
       ELSE /\ density' = BlockDensity(block', mode, max_lines)
            /\ stroke_color' = BlockStroke(block', mode)
            /\ line_buffer' = AppendLines(line_buffer, 0, density', by, bx, block_size,
                                          line_spacing, direction, stroke_color')
    /\ IF bx + block_size < w
       THEN bx' = bx + block_size /\ by' = by
       ELSE bx' = 0 /\ by' = by + block_size
    /\ pc' = IF by' >= h THEN "emit" ELSE "scan"
    /\ UNCHANGED <<buildArgs, merge_threshold, key, paths, mergeLocals>>

\* for key in sorted(line_buffer.keys()): one subelement per merged segment.
EmitKey ==
    /\ pc = "emit"
    /\ {k \in DOMAIN line_buffer : k > key} # {}
    /\ key' = MinKey({k \in DOMAIN line_buffer : k > key})
    /\ paths' = paths \o PathsOf(merge_segments(line_buffer[key'], merge_threshold),
                                 key', direction)
    /\ UNCHANGED <<buildArgs, merge_threshold, by, bx, block, density, stroke_color,
                   line_buffer, mergeLocals, pc>>

\* return ...toprettyxml(...)
Return ==
    /\ pc = "emit"
    /\ {k \in DOMAIN line_buffer : k > key} = {}
    /\ pc' = "done"
    /\ UNCHANGED <<buildArgs, merge_threshold, buildLocals, mergeLocals>>

Next == ScanBlock \/ EmitKey \/ Return

Spec == Init /\ [][Next]_vars

(***************************************************************************)
(* The density computation on wider value ranges: grids of one or two      *)
(* pixels, cut into one-pixel blocks or taken as one block.                *)
(***************************************************************************)

GrayLevels == {0, 1, 64, 127, 128, 191, 254, 255}
ChannelLevels == {0, 128, 255}
RGBLevels == ChannelLevels \X ChannelLevels \X ChannelLevels
DensityPixels(md) == IF md = "color" THEN RGBLevels ELSE GrayLevels
DensityMaxLines == {1, 2, DefaultMaxLines, 255, 256}

InitDensity ==
    /\ w \in 1..2 /\ h = 1
    /\ direction \in Directions /\ mode \in Modes
    /\ block_size \in 1..2
    /\ max_lines \in DensityMaxLines
    /\ line_spacing = DefaultLineSpacing /\ merge_threshold = DefaultMergeThreshold
    /\ img \in [Coords(w, h) -> DensityPixels(mode)]
    /\ BuildStart /\ NoMerge

SpecDensity == InitDensity /\ [][Next]_vars

(***************************************************************************)
(* merge_segments on its own, one loop iteration per step, applied to a    *)
(* bucket and then once more to its own result.                            *)
(***************************************************************************)

\* Two stroke colours: "#000000" and "black".
SegColors == {0, BlackCode}
AllSegs == {s \in (0..MaxCoord) \X (0..MaxCoord) \X SegColors : s[1] <= s[2]}

\* Buckets of distinct segments, listed from the greatest down, so that the
\* sort has everything to do (its result does not depend on the input order).
Buckets ==
    UNION {{s \in [1..n -> AllSegs] : \A i \in 1..(n - 1) : SegLess(s[i + 1], s[i])}
           : n \in 0..MaxSegs}

\* The spec's merge example.
ExampleBucket == <<<<0, 5, BlackCode>>, <<4, 9, BlackCode>>, <<11, 15, BlackCode>>>>

InitMerge ==
    /\ \/ segments \in Buckets /\ merge_threshold \in 0..MaxThreshold
       \/ segments = ExampleBucket /\ merge_threshold = DefaultMergeThreshold
    /\ sorted_segs = <<>> /\ pos = 0 /\ merged = <<>>
    /\ pass = 1 /\ first_result = <<>>
    /\ pc = "sort"
    /\ NoBuild

\* merged = []; the iterable sorted(segments) of the for statement
SortStep ==
    /\ pc = "sort"
    /\ sorted_segs' = SortedSegs(segments)
    /\ pos' = 0 /\ merged' = <<>>
    /\ pc' = "sweep"
    /\ UNCHANGED <<buildArgs, merge_threshold, buildLocals, segments, pass, first_result>>

\* the loop body for the next sorted segment
SweepStep ==
    /\ pc = "sweep" /\ pos < Len(sorted_segs)
    /\ merged' = MergeStep(merged, sorted_segs[pos + 1], merge_threshold)
    /\ pos' = pos + 1
    /\ UNCHANGED <<buildArgs, merge_threshold, buildLocals, segments, sorted_segs,
                   pass, first_result, pc>>

\* return merged
MergeReturn ==
    /\ pc = "sweep" /\ pos = Len(sorted_segs)
    /\ first_result' = IF pass = 1 THEN merged ELSE first_result
    /\ pc' = "done"
    /\ UNCHANGED <<buildArgs, merge_threshold, buildLocals, segments, sorted_segs,
                   pos, merged, pass>>

\* merge_segments called again on the list it returned
Remerge ==
    /\ pc = "done" /\ pass = 1
    /\ segments' = merged
    /\ pass' = 2
    /\ pc' = "sort"
    /\ UNCHANGED <<buildArgs, merge_threshold, buildLocals, sorted_segs, pos, merged,
                   first_result>>

NextMerge == SortStep \/ SweepStep \/ MergeReturn \/ Remerge

SpecMerge == InitMerge /\ [][NextMerge]_vars

(***************************************************************************)
(* Properties of build_svg_tree                                            *)
(***************************************************************************)

White(md) == IF md = "color" THEN <<255, 255, 255>> ELSE 255
Black(md) == IF md = "color" THEN <<0, 0, 0>> ELSE 0

IsExample ==
    /\ w = ExampleSide /\ h = ExampleSide /\ img = ExampleImg
    /\ direction = "horizontal" /\ mode = "mono"
    /\ block_size = DefaultBlockSize /\ max_lines = DefaultMaxLines
    /\ line_spacing = DefaultLineSpacing /\ merge_threshold = DefaultMergeThreshold

FullWidthPath(y) == <<0, y, ExampleSide, y, BlackCode>>

\* C1 as the spec states it: on the 24 x 24 grid of 128s with the default
\* arguments every block has density 2 and the document holds exactly two
\* paths, at y = 0 and y = 1, each from 0 to 24.
C1_TwoSegments ==
    IsExample =>
        /\ block # <<>> => density = 2
        /\ pc = "done" => paths = <<FullWidthPath(0), FullWidthPath(1)>>

\* C1 amended: every block has density 2, each of the two block rows
\* contributes its own two lines, and the document holds exactly four paths,
\* at y = 0, 1, 12 and 13, each from 0 to 24.
C1_FourSegments ==
    IsExample =>
        /\ block # <<>> => density = 2
        /\ pc # "scan" =>
              /\ DOMAIN line_buffer = {0, 1, DefaultBlockSize, DefaultBlockSize + 1}
              /\ \A k \in DOMAIN line_buffer : Len(line_buffer[k]) = 2
        /\ pc = "done" =>
              paths = <<FullWidthPath(0), FullWidthPath(1),
                        FullWidthPath(DefaultBlockSize),
                        FullWidthPath(DefaultBlockSize + 1)>>

C1_Witness == IsExample /\ pc = "done" /\ Len(paths) = 4

\* The keys whose bucket the step appended to.
Appended(k) == Len(BufGet(line_buffer', k)) > Len(BufGet(line_buffer, k))

PerpLimit == IF direction = "horizontal" THEN h ELSE w
AlongLimit == IF direction = "horizontal" THEN w ELSE h
AlongOrigin == IF direction = "horizontal" THEN bx ELSE by

C4_Step ==
    \A k \in DOMAIN line_buffer' :
        Appended(k) =>
            /\ PerpOrigin(by, bx, direction) <= k
            /\ k < Min(PerpOrigin(by, bx, direction) + block_size, PerpLimit)

\* C4: every raw segment appended for a block has its coord inside the
\* block's perpendicular span as clipped to the grid:
\* origin <= coord < min(origin + block_size, H or W).
C4_SegmentContainment == [][C4_Step]_vars

C9_Step ==
    /\ \A k \in DOMAIN line_buffer' :
           Appended(k) =>
               LET seg == line_buffer'[k][Len(line_buffer'[k])]
               IN  /\ seg[1] = AlongOrigin
                   /\ seg[2] = Min(AlongOrigin + block_size, AlongLimit)
    /\ \A i \in 1..Len(paths') :
           IF direction = "horizontal"
           THEN paths'[i][3] <= w
           ELSE paths'[i][4] <= h

\* C9: every raw segment's extent is its block's extent clipped at the grid
\* boundary, so no path ends beyond the canvas.
C9_ClippedExtent == [][C9_Step]_vars

AllWhite == \A c \in DOMAIN img : img[c] = White(mode)

BlockOrigins ==
    {o \in Coords(w, h) : o[1] % block_size = 0 /\ o[2] % block_size = 0}

BlockAt(o) == Slice(img, w, h, o[1], o[2], block_size)

AllDensityZero ==
    \A o \in BlockOrigins : BlockDensity(BlockAt(o), mode, max_lines) = 0

\* C5 as the spec states it: the document has no path only if every pixel
\* is pure white.
C5_EmptyOnlyIfWhite == (pc = "done" /\ paths = <<>>) => AllWhite

\* C5 amended: the document has no path exactly when every block has
\* density 0; a uniformly white monochrome grid is one such case.
C5_EmptyIffNoDensity ==
    pc = "done" =>
        /\ paths = <<>> <=> AllDensityZero
        /\ (mode = "mono" /\ AllWhite) => paths = <<>>

C5_Witness == pc = "done" /\ paths = <<>> /\ ~AllWhite

Transpose(im, ww, hh) == [c \in Coords(hh, ww) |-> im[<<c[2], c[1]>>]]
OtherDirection(dir) == IF dir = "horizontal" THEN "vertical" ELSE "horizontal"
SwapPath(p) == <<p[2], p[1], p[4], p[3], p[5]>>
SwapPaths(ps) == [i \in 1..Len(ps) |-> SwapPath(ps[i])]

\* C8: the paths of a grid and those of its transpose in the other direction,
\* with the same block_size, max_lines, line_spacing and merge_threshold, are
\* the same sequence with the two coordinates of every point swapped and the
\* same stroke colours.
C8_DirectionSymmetry ==
    pc = "done" =>
        paths = SwapPaths(build_svg_tree(Transpose(img, w, h), h, w,
                                         OtherDirection(direction), mode, block_size,
                                         max_lines, line_spacing, merge_threshold))

C8_Witness ==
    /\ pc = "done" /\ direction = "horizontal" /\ w # h /\ Len(paths) >= 2
    /\ \E i \in 1..Len(paths) : paths[i][1] # paths[i][2]

Range(f) == {f[i] : i \in DOMAIN f}
Cover(segs) == UNION {s[1]..(s[2] - 1) : s \in Range(segs)}

PathCoord(p) == IF direction = "horizontal" THEN p[2] ELSE p[1]
PathSpan(p) ==
    IF direction = "horizontal" THEN p[1]..(p[3] - 1) ELSE p[2]..(p[4] - 1)
PathCover(k) == UNION {PathSpan(p) : p \in {q \in Range(paths) : PathCoord(q) = k}}

BucketShape(b) ==
    \A i \in DOMAIN b :
        /\ b[i][1] % block_size = 0
        /\ b[i][2] = b[i][1] + block_size
        /\ \A j \in DOMAIN b : i # j => b[i][1] # b[j][1]

\* C10: with 0 <= merge_threshold < block_size and line_spacing >= 1 every
\* bucket holds segments of length block_size with pairwise distinct starts
\* that are multiples of block_size, and the positions the emitted paths of a
\* coord cover are exactly those its raw segments cover.
C10_MergeCoversOnlyRaw ==
    (0 <= merge_threshold /\ merge_threshold < block_size /\ line_spacing >= 1) =>
        /\ \A k \in DOMAIN line_buffer : BucketShape(line_buffer[k])
        /\ pc = "done" =>
              /\ \A p \in Range(paths) : PathCoord(p) \in DOMAIN line_buffer
              /\ \A k \in DOMAIN line_buffer : PathCover(k) = Cover(line_buffer[k])

PathsAt(k) == {p \in Range(paths) : PathCoord(p) = k}

\* One coord whose two raw segments lie a block apart and stay two paths, and
\* another whose raw segments were merged into a single path.
C10_Witness ==
    /\ pc = "done" /\ merge_threshold < block_size
    /\ \E k \in DOMAIN line_buffer :
           /\ Len(line_buffer[k]) = 2
           /\ line_buffer[k][1][3] = line_buffer[k][2][3]
           /\ line_buffer[k][2][1] > line_buffer[k][1][2]
           /\ Cardinality(PathsAt(k)) = 2
    /\ \E k \in DOMAIN line_buffer :
           /\ Len(line_buffer[k]) >= 2
           /\ Cardinality(PathsAt(k)) = 1

(***************************************************************************)
(* Properties of the density computation                                   *)
(***************************************************************************)

\* The brightness of a block as a fraction <<numerator, denominator>>: the
\* mean (mono) or, in ten-thousandths, the luminance of the mean RGB (color).
Brightness(blk, md) ==
    IF md = "color"
    THEN <<2989 * ChanSum(blk, 1) + 5870 * ChanSum(blk, 2) + 1140 * ChanSum(blk, 3),
           Len(blk)>>
    ELSE <<ChanSum(blk, 0), Len(blk)>>

Brighter(b1, b2, md) ==
    Brightness(b1, md)[1] * Brightness(b2, md)[2]
        > Brightness(b2, md)[1] * Brightness(b1, md)[2]

DensityInRange == block # <<>> => (0 <= density /\ density <= max_lines)

WhiteIsZero ==
    (block # <<>> /\ \A i \in DOMAIN block : block[i] = White(mode)) => density = 0

BlackIsMax ==
    (block # <<>> /\ \A i \in DOMAIN block : block[i] = Black(mode)) =>
        density = max_lines

DensityMonotone ==
    block # <<>> =>
        \A o \in BlockOrigins :
            Brighter(BlockAt(o), block, mode) =>
                BlockDensity(BlockAt(o), mode, max_lines) <= density

\* C3: in both modes and for every positive max_lines the density of a block
\* is within 0..max_lines, is 0 for an all-white block, is max_lines for an
\* all-black block, and never grows with the block's brightness.
C3_DensityBounds == DensityInRange /\ WhiteIsZero /\ BlackIsMax /\ DensityMonotone

(***************************************************************************)
(* Properties of merge_segments                                            *)
(***************************************************************************)

Last(s) == s[Len(s)]
Count(seq, x) == Cardinality({i \in DOMAIN seq : seq[i] = x})

C2_StepRule ==
    (pc = "sweep" /\ pos' = pos + 1) =>
        LET seg == sorted_segs[pos']
            extends == /\ merged # <<>>
                       /\ seg[1] <= Last(merged)[2] + merge_threshold
                       /\ seg[3] = Last(merged)[3]
        IN  IF extends
            THEN /\ Len(merged') = Len(merged)
                 /\ SubSeq(merged', 1, Len(merged) - 1) = SubSeq(merged, 1, Len(merged) - 1)
                 /\ Last(merged')[1] = Last(merged)[1]
                 /\ Last(merged')[3] = Last(merged)[3]
                 /\ Last(merged')[2] = Max(Last(merged)[2], seg[2])
            ELSE merged' = merged \o <<seg>>

C2_State ==
    /\ pc = "sweep" =>
          /\ \A i \in 1..(Len(sorted_segs) - 1) : sorted_segs[i][1] <= sorted_segs[i + 1][1]
          /\ Len(sorted_segs) = Len(segments)
          /\ \A x \in Range(segments) : Count(sorted_segs, x) = Count(segments, x)
    /\ (pc = "done" /\ segments = ExampleBucket /\ merge_threshold = 1) =>
          merged = <<<<0, 9, BlackCode>>, <<11, 15, BlackCode>>>>
    /\ pc = "done" =>
          /\ (Len(segments) = 2 /\ segments[1][3] # segments[2][3]) =>
                merged = sorted_segs
          /\ \A x \in Range(segments) :
                \E r \in Range(merged) : r[3] = x[3] /\ r[1] <= x[1] /\ x[2] <= r[2]
          /\ \A r \in Range(merged) :
                /\ \E x \in Range(segments) : x[3] = r[3] /\ x[1] = r[1]
                /\ \E x \in Range(segments) : x[3] = r[3] /\ x[2] = r[2]

\* C2: the sweep goes once over the bucket sorted by start; the next segment
\* extends the open run (end becomes the larger end) exactly when its start is
\* at most end + merge_threshold and its colour is the run's, and otherwise
\* opens a new run; [(0,5),(4,9),(11,15)] with threshold 1 gives
\* [(0,9),(11,15)]; segments of different colours never end up in one run.
C2_MergeSweep == [][C2_StepRule]_vars /\ []C2_State

C2_Witness ==
    /\ pc = "done" /\ pass = 1 /\ Len(segments) = 3 /\ Len(merged) = 2
    /\ merged[1][3] # merged[2][3]
    /\ merged[2][1] <= merged[1][2] + merge_threshold

\* C6: the returned list is sorted by start, and of any two of its segments
\* the later starts more than merge_threshold past the end of the earlier,
\* unless a segment of another colour than the earlier one follows the earlier
\* one up to and including the later one.
C6_MergedInvariant ==
    pc = "done" =>
        /\ \A i \in 1..(Len(merged) - 1) : merged[i][1] <= merged[i + 1][1]
        /\ \A i \in 1..Len(merged) : \A j \in (i + 1)..Len(merged) :
               \/ merged[j][1] > merged[i][2] + merge_threshold
               \/ \E m \in (i + 1)..j : merged[m][3] # merged[i][3]

C6_Witness ==
    /\ pc = "done" /\ pass = 1 /\ merge_threshold >= 1 /\ Len(merged) = 3
    /\ merged[1][3] = merged[2][3] /\ merged[1][3] # merged[3][3]

\* C7: merge_segments applied to the list it returned gives that list again.
C7_MergeIdempotent == (pc = "done" /\ pass = 2) => merged = first_result

C7_Witness ==
    /\ pc = "done" /\ pass = 2 /\ Len(merged) >= 2
    /\ merged[2][1] <= merged[1][2] + merge_threshold

====
